---- MODULE Spec2Model ----
(***************************************************************************)
(* DipDECK (clustpy/deep/dipdeck.py): the clustering procedure _dip_deck,   *)
(* its training loop _dip_deck_training, the merge _merge_by_dip_value,     *)
(* the dip matrix _get_dip_matrix and the initial clustering adapter        *)
(* run_initial_clustering (clustpy/deep/_utils.py).                         *)
(*                                                                         *)
(* Data set X: three distinct rows, stored in the order row 1 (once),       *)
(* row 2 (Bulk copies), row 3 (once).  Samples with the same row have the   *)
(* same embedding and are treated alike by every step, so per-sample        *)
(* arrays (labels, embedded data) are kept per row, and a sample count      *)
(* is the sum of Count over rows.  The embedding is one-dimensional on the  *)
(* integer grid; every step of the procedure depends on differences of      *)
(* embeddings only, so the embedding is taken relative to that of row 2:    *)
(* the autoencoder maps row 2 to 0 and rows 1 and 3 to -Reach..Reach, and   *)
(* every optimizer step may change it arbitrarily.  Distances are also      *)
(* unchanged by mirroring the embedding, so of an embedding and its mirror  *)
(* image only the one that maps row 1 to a non-negative value is kept.      *)
(* Dip p-values are the                                                     *)
(* levels 0..PScale (p = level / PScale), returned by the black-box         *)
(* dip_test/dip_pval as arbitrary values.  Cluster ids and array rows are   *)
(* 0-based as in the source.                                                *)
(***************************************************************************)
EXTENDS Integers, Sequences, FiniteSets, TLC

\* ---- bounds ----
Reach == 1
PScale == 2
MaxEpochs == 2
Bulk == 14
NBatches == 2

\* ---- program constants ----
max_cluster_size_diff_factor == 2
\* 0.2 * mean(cluster_sizes) is compared as 1/DeleteDen of the mean
DeleteDen == 5

\* n_clusters_init = None is written as -1
None == -1

\* the distinct rows of X, in storage order, and the number of samples with each row
XRows == 1..3
Count(x) == IF x = 2 THEN Bulk ELSE 1
Pos == (-Reach)..Reach
PVals == 0..PScale
Autoencoders == {ae \in [XRows -> Pos] : ae[2] = 0 /\ ae[1] >= 0}

Abs(v) == IF v < 0 THEN -v ELSE v
Min2(a, b) == IF a <= b THEN a ELSE b

\* ---- 0-based arrays ----
Rows(arr) == Cardinality(DOMAIN arr)
EmptyArr == [k \in {} |-> 0]
\* np.delete(arr, idx, axis=0): the rows whose index is in idx are removed
\* (a repeated index removes its row once)
NpDelete(arr, idx) ==
    LET keep == {k \in DOMAIN arr : k \notin idx}
        rank(k) == Cardinality({m \in keep : m < k})
    IN [r \in 0..(Cardinality(keep) - 1) |-> arr[CHOOSE k \in keep : rank(k) = r]]
\* np.append(arr, [row], axis=0)
NpAppend(arr, row) ==
    [r \in 0..Rows(arr) |-> IF r < Rows(arr) THEN arr[r] ELSE row]

\* ---- encoder ----
\* encode_batchwise(testloader, autoencoder, device): the embedding of every sample
encode_batchwise(ae) == [x \in XRows |-> ae[x]]

\* ---- optimal centers: exact fractions num/den, den = 0 is NaN (mean of nothing) ----
RECURSIVE WeightedSum(_, _)
WeightedSum(f, S) ==
    IF S = {} THEN 0
    ELSE LET x == CHOOSE t \in S : TRUE IN Count(x) * f[x] + WeightedSum(f, S \ {x})

\* the rows of the samples labelled k
Members(labels, k) == {x \in XRows : labels[x] = k}

\* len(cluster_labels_cpu[cluster_labels_cpu == k])
ClusterSize(labels, k) == WeightedSum([x \in XRows |-> 1], Members(labels, k))

\* np.mean(embedded_data[cluster_labels_cpu == cluster_id], axis=0)
ClusterMean(embedded_data, labels, k) ==
    [num |-> WeightedSum(embedded_data, Members(labels, k)),
     den |-> ClusterSize(labels, k)]

\* distance of an optimal center to a grid point, scaled by den (den > 0)
ScaledDist(c, e) == Abs(c.num - c.den * e)

\* np.argmin(cdist([c], embedded_data)): the row of the first nearest sample; a NaN
\* center gives index 0, the first sample
NearestSample(c, embedded_data) ==
    IF c.den = 0 THEN 1
    ELSE CHOOSE x \in XRows :
            \A t \in XRows :
                /\ ScaledDist(c, embedded_data[x]) <= ScaledDist(c, embedded_data[t])
                /\ (ScaledDist(c, embedded_data[x]) = ScaledDist(c, embedded_data[t]) => x <= t)

\* the optimal (synthetic) center is kept as the embedded center
SyntheticCenters(optimal_centers, embedded_data) ==
    LET best == [k \in DOMAIN optimal_centers |-> NearestSample(optimal_centers[k], embedded_data)]
    IN [centers |-> [k \in DOMAIN optimal_centers |-> best[k]],
        embedded |-> [k \in DOMAIN optimal_centers |->
                        IF optimal_centers[k].den = 0 THEN embedded_data[best[k]]
                        ELSE optimal_centers[k].num \div optimal_centers[k].den]]

\* _get_nearest_points_to_optimal_centers: (X[best], embedded_data[best])
get_nearest_points_to_optimal_centers(optimal_centers, embedded_data) ==
    LET best == [k \in DOMAIN optimal_centers |-> NearestSample(optimal_centers[k], embedded_data)]
    IN [centers |-> [k \in DOMAIN optimal_centers |-> best[k]],
        embedded |-> [k \in DOMAIN optimal_centers |-> embedded_data[best[k]]]]

\* ---- dip matrix ----
PairsOf(n) == {p \in (0..(n - 1)) \X (0..(n - 1)) : p[1] < p[2]}

\* dipdeck.py:539-540: the cluster sizes differ by more than the factor
SizesDiffer(labels, a, b) ==
    \/ ClusterSize(labels, a) > ClusterSize(labels, b) * max_cluster_size_diff_factor
    \/ ClusterSize(labels, b) > ClusterSize(labels, a) * max_cluster_size_diff_factor

ImbalancedPairs(labels, n) == {p \in PairsOf(n) : SizesDiffer(labels, p[1], p[2])}

\* the trimmed p-value replaces the pooled one when the sizes differ
DipEntryTrimmedOnly(labels, a, b, pv, pv2) ==
    IF SizesDiffer(labels, a, b) THEN pv2[<<a, b>>] ELSE pv[<<a, b>>]

\* the p-value stored for the pair a < b: dip_pval of the pooled projection (pv),
\* and min(pv, pv2) when the sizes differ, pv2 being dip_pval of the trimmed sample
DipEntry(labels, a, b, pv, pv2) ==
    IF SizesDiffer(labels, a, b) THEN Min2(pv[<<a, b>>], pv2[<<a, b>>]) ELSE pv[<<a, b>>]

UpperOnlyDipMatrix(labels, n, pv, pv2) ==
    [a \in 0..(n - 1) |-> [b \in 0..(n - 1) |->
        IF a < b THEN DipEntry(labels, a, b, pv, pv2) ELSE 0]]

\* _get_dip_matrix: zeros, then both (i, j) and (j, i) set for every i < j
get_dip_matrix(labels, n, pv, pv2) ==
    [a \in 0..(n - 1) |-> [b \in 0..(n - 1) |->
        IF a < b THEN DipEntry(labels, a, b, pv, pv2)
        ELSE IF b < a THEN DipEntry(labels, b, a, pv, pv2)
        ELSE 0]]

\* the values dip_pval may return for one call of _get_dip_matrix
PvOracle(n) == [PairsOf(n) -> PVals]
Pv2Oracle(labels, n) == [ImbalancedPairs(labels, n) -> PVals]

\* the matrices one call of _get_dip_matrix may return: the stored value of a pair
\* takes every level already when the trimmed p-value equals the pooled one
DipMatrices(labels, n) ==
    {get_dip_matrix(labels, n, pv, [p \in ImbalancedPairs(labels, n) |-> pv[p]]) :
        pv \in PvOracle(n)}

\* the first pair instead of the pair of the maximum
FirstPair(dip, n) == <<0, IF n > 1 THEN 1 ELSE 0>>

\* np.unravel_index(np.argmax(dip_matrix_cpu, axis=None), shape): first maximum, row-major
Argmax(dip, n) ==
    CHOOSE p \in (0..(n - 1)) \X (0..(n - 1)) :
        \A q \in (0..(n - 1)) \X (0..(n - 1)) :
            /\ dip[p[1]][p[2]] >= dip[q[1]][q[2]]
            /\ (dip[p[1]][p[2]] = dip[q[1]][q[2]] =>
                    (p[1] < q[1] \/ (p[1] = q[1] /\ p[2] <= q[2])))

\* ---- merge ----
\* the merged pair gets the highest id and nothing else is renumbered
RelabelNoShift(l, a, b, n) ==
    IF l = a \/ l = b THEN n - 1 ELSE l

\* dipdeck.py:406-414: the new label of a sample labelled l, n the decremented count
Relabel(l, a, b, n) ==
    IF l = a \/ l = b THEN n - 1
    ELSE IF l < a /\ l < b THEN l
    ELSE IF l > a /\ l > b THEN l - 2
    ELSE l - 1

\* _merge_by_dip_value(X, embedded_data, cluster_labels_cpu, dip_argmax, n_clusters_current, ...)
merge_by_dip_value(emb, labels, pair, n, centers, embedded_centers, pv, pv2) ==
    LET a == pair[1]
        b == pair[2]
        points_in_center_1 == ClusterSize(labels, a)
        points_in_center_2 == ClusterSize(labels, b)
        new_labels == [x \in XRows |-> Relabel(labels[x], a, b, n)]
        optimal_new_center ==
            [num |-> embedded_centers[a] * points_in_center_1
                     + embedded_centers[b] * points_in_center_2,
             den |-> points_in_center_1 + points_in_center_2]
        new == get_nearest_points_to_optimal_centers([k \in {0} |-> optimal_new_center], emb)
    IN [labels |-> new_labels,
        centers |-> NpAppend(NpDelete(centers, {a, b}), new.centers[0]),
        embedded |-> NpAppend(NpDelete(embedded_centers, {a, b}), new.embedded[0]),
        dip |-> get_dip_matrix(new_labels, n, pv, pv2)]

\* the results one call of _merge_by_dip_value may return
MergeResults(emb, labels, pair, n, centers, embedded_centers) ==
    LET new_labels == [x \in XRows |-> Relabel(labels[x], pair[1], pair[2], n)]
    IN {merge_by_dip_value(emb, labels, pair, n, centers, embedded_centers, pv, pv2) :
            pv \in PvOracle(n), pv2 \in Pv2Oracle(new_labels, n)}

\* ---- state ----
VARIABLES
    pc,                     \* position in _dip_deck / _dip_deck_training
    error,                  \* the exception raised, "" when none
    n_clusters_init,        \* parameter; reassigned by run_initial_clustering (dipdeck.py:116)
    dip_merge_threshold,    \* level in 0..PScale when valid
    max_n_clusters,
    min_n_clusters,
    clustering_epochs,
    initial_clustering_class,   \* "n_clusters": takes n_clusters, has cluster_centers_;
                                \* "bare": determines the count itself, has labels_ only
    autoencoder,            \* the encoder: row of X -> embedding
    embedded_data,          \* encode_batchwise result, per row of X
    n_clusters_current,
    cluster_labels_cpu,     \* per row of X
    centers_cpu,            \* rows of X
    embedded_centers_cpu,
    dip_matrix_cpu,
    dip_argmax,
    i,                      \* epoch counter of the training loop
    batch                   \* batches of the current epoch already trained on

conf == <<n_clusters_init, dip_merge_threshold, max_n_clusters, min_n_clusters,
          clustering_epochs, initial_clustering_class>>
clustering == <<n_clusters_current, cluster_labels_cpu, centers_cpu, embedded_centers_cpu,
                dip_matrix_cpu, dip_argmax>>
vars == <<pc, error, conf, autoencoder, embedded_data, clustering, i, batch>>

NRows == Cardinality(XRows)

Init ==
    /\ pc = "start"
    /\ error = ""
    /\ n_clusters_init \in {None} \cup (1..NRows)
    /\ dip_merge_threshold \in (-1)..(PScale + 1)
    /\ max_n_clusters \in 1..2
    /\ min_n_clusters \in 0..2
    /\ clustering_epochs \in 0..MaxEpochs
    /\ initial_clustering_class \in {"n_clusters", "bare"}
    \* a class that determines the count itself ignores n_clusters_init
    /\ initial_clustering_class = "bare" => n_clusters_init \in {None, NRows}
    /\ autoencoder = [x \in XRows |-> 0]
    /\ embedded_data = [x \in XRows |-> 0]
    /\ n_clusters_current = 0
    /\ cluster_labels_cpu = [x \in XRows |-> 0]
    /\ centers_cpu = EmptyArr
    /\ embedded_centers_cpu = EmptyArr
    /\ dip_matrix_cpu = EmptyArr
    /\ dip_argmax = <<0, 0>>
    /\ i = 0
    /\ batch = 0

\* ---- _dip_deck ----
ValidationErrorNoMinCheck ==
    IF max_n_clusters < min_n_clusters
        THEN "max_n_clusters can not be smaller than min_n_clusters"
    ELSE IF n_clusters_init = None
        THEN "TypeError"
    ELSE IF n_clusters_init < min_n_clusters
        THEN "n_clusters can not be smaller than min_n_clusters"
    ELSE IF dip_merge_threshold < 0 \/ dip_merge_threshold > PScale
        THEN "dip_merge_threshold must be between 0 and 1"
    ELSE ""

ValidationErrorNoThreshold ==
    IF max_n_clusters < min_n_clusters
        THEN "max_n_clusters can not be smaller than min_n_clusters"
    ELSE IF min_n_clusters <= 0
        THEN "min_n_clusters must be greater than zero"
    ELSE IF n_clusters_init = None
        THEN "TypeError"
    ELSE IF n_clusters_init < min_n_clusters
        THEN "n_clusters can not be smaller than min_n_clusters"
    ELSE ""

\* dipdeck.py:93-100: the exception the checks raise, "" when they pass.
\* None < min_n_clusters is evaluated before "is not None" and raises TypeError.
ValidationError ==
    IF max_n_clusters < min_n_clusters
        THEN "max_n_clusters can not be smaller than min_n_clusters"
    ELSE IF min_n_clusters <= 0
        THEN "min_n_clusters must be greater than zero"
    ELSE IF n_clusters_init = None
        THEN "TypeError"
    ELSE IF n_clusters_init < min_n_clusters
        THEN "n_clusters can not be smaller than min_n_clusters"
    ELSE IF dip_merge_threshold < 0 \/ dip_merge_threshold > PScale
        THEN "dip_merge_threshold must be between 0 and 1"
    ELSE ""

Validate ==
    /\ pc = "start"
    /\ error' = ValidationError
    /\ pc' = IF ValidationError = "" THEN "pretrain" ELSE "raised"
    /\ UNCHANGED <<conf, autoencoder, embedded_data, clustering, i, batch>>

\* dipdeck.py:112: get_trained_autoencoder
Pretrain ==
    /\ pc = "pretrain"
    /\ autoencoder' \in Autoencoders
    /\ pc' = "initial_clustering"
    /\ UNCHANGED <<error, conf, embedded_data, clustering, i, batch>>

\* ---- run_initial_clustering (_utils.py) ----
\* The labels the external algorithm may assign.  Samples with the same row have the
\* same embedding and get the same label.  The algorithm numbers its clusters in the
\* order in which it meets them (0, 1, ...).  One that takes n_clusters uses every id
\* in 0..k-1; one that determines the count itself may label samples as noise (-1).
FirstMetOrder(g) ==
    \A x \in XRows : g[x] >= 0 =>
        \A l \in 0..(g[x] - 1) : \E t \in 1..(x - 1) : g[t] = l

AlgorithmLabelings(class, k) ==
    IF class = "n_clusters"
    THEN {g \in [XRows -> 0..(k - 1)] : FirstMetOrder(g) /\ {g[x] : x \in XRows} = 0..(k - 1)}
    ELSE {g \in [XRows -> (-1)..(NRows - 1)] : FirstMetOrder(g)}

\* np.unique(labels) without the negative labels (_utils.py:342-343): the non-negative
\* labels in use, ascending, as array position -> label
NonNegativeLabels(labels) ==
    LET used == {l \in {labels[x] : x \in XRows} : l >= 0}
    IN [r \in 0..(Cardinality(used) - 1) |->
            CHOOSE l \in used : Cardinality({m \in used : m < l}) = r]

\* the algorithm after fit(X) with the labelling g.  One that takes n_clusters = k
\* exposes cluster_centers_, one row per cluster, the mean of the samples of the
\* cluster; one that determines the count itself exposes no centers.
FittedAlgorithm(class, emb, g, k) ==
    IF class = "n_clusters"
    THEN [attr |-> "cluster_centers_", labels_ |-> g,
          centers |-> [c \in 0..(k - 1) |-> ClusterMean(emb, g, c)]]
    ELSE [attr |-> "none", labels_ |-> g, centers |-> EmptyArr]

\* _utils.py:334-344 for the fitted algorithm: (n_clusters, labels, centers)
run_initial_clustering(emb, clustering_algo) ==
    LET labels == clustering_algo.labels_
        present == NonNegativeLabels(labels)
    IN [n_clusters |-> Rows(present),
        labels |-> labels,
        centers |-> IF clustering_algo.attr \in {"cluster_centers_", "means_"}
                    THEN clustering_algo.centers
                    ELSE [r \in DOMAIN present |-> ClusterMean(emb, labels, present[r])]]

\* dipdeck.py:115-124: embed, initial clustering, nearest points, initial dip values.
\* Without any cluster the center array is empty and cdist raises.
InitialClustering ==
    /\ pc = "initial_clustering"
    /\ \E g \in AlgorithmLabelings(initial_clustering_class, n_clusters_init) :
       \E emb \in {encode_batchwise(autoencoder)} :
       \E init \in {run_initial_clustering(emb,
                        FittedAlgorithm(initial_clustering_class, emb, g, n_clusters_init))} :
        /\ embedded_data' = emb
        /\ n_clusters_init' = init.n_clusters
        /\ cluster_labels_cpu' = init.labels
        /\ IF init.n_clusters = 0
           THEN /\ pc' = "raised"
                /\ error' = "ValueError"
                /\ UNCHANGED <<n_clusters_current, centers_cpu, embedded_centers_cpu,
                               dip_matrix_cpu>>
           ELSE /\ \E near \in {get_nearest_points_to_optimal_centers(init.centers, emb)} :
                    /\ centers_cpu' = near.centers
                    /\ embedded_centers_cpu' = near.embedded
                /\ dip_matrix_cpu' \in DipMatrices(init.labels, init.n_clusters)
                /\ n_clusters_current' = init.n_clusters
                /\ pc' = "loop"
                /\ UNCHANGED error
    /\ UNCHANGED <<dip_merge_threshold, max_n_clusters, min_n_clusters, clustering_epochs,
                   initial_clustering_class, autoencoder, dip_argmax, i, batch>>

\* ---- _dip_deck_training ----
\* the loop test admitting one epoch more
LoopTestOneMore ==
    /\ pc = "loop"
    /\ pc' = IF i <= clustering_epochs THEN "batch" ELSE "done"
    /\ batch' = 0
    /\ UNCHANGED <<error, conf, autoencoder, embedded_data, clustering, i>>

\* dipdeck.py:223: while i < clustering_epochs; line 355: return
LoopTest ==
    /\ pc = "loop"
    /\ pc' = IF i < clustering_epochs THEN "batch" ELSE "done"
    /\ batch' = 0
    /\ UNCHANGED <<error, conf, autoencoder, embedded_data, clustering, i>>

\* the rows of the samples of batch b of an epoch: the train loader visits every
\* sample once, the copies of row 2 are spread over all batches
BatchIds(b) == {x \in XRows : x = 2 \/ x % NBatches = b}

\* dipdeck.py:241-247: squared_diffs.argmin(1) against the encoded centers
LiveLabel(ae, centers, s) ==
    CHOOSE k \in DOMAIN centers :
        \A m \in DOMAIN centers :
            /\ Abs(ae[s] - ae[centers[k]]) <= Abs(ae[s] - ae[centers[m]])
            /\ (Abs(ae[s] - ae[centers[k]]) = Abs(ae[s] - ae[centers[m]]) => k <= m)

\* the live assignment in every epoch
AlwaysLiveLabels(s) == LiveLabel(autoencoder, centers_cpu, s)

\* dipdeck.py:245-250: the label a batch sample is trained with
current_labels(s) ==
    IF i # 0 THEN LiveLabel(autoencoder, centers_cpu, s) ELSE cluster_labels_cpu[s]

\* dipdeck.py:251-253: int_to_one_hot scatters at the label (out of bounds raises), and
\* cluster_relationships * squared_diffs needs broadcastable shapes
BatchRaises(b) ==
    \/ \E s \in BatchIds(b) : current_labels(s) \notin 0..(n_clusters_current - 1)
    \/ /\ Rows(centers_cpu) # n_clusters_current
       /\ Rows(centers_cpu) # 1
       /\ n_clusters_current # 1

\* one batch that also writes the live labels of its samples back (cf. dipdeck.py:248)
TrainBatchWritingBack ==
    /\ pc = "batch"
    /\ batch < NBatches
    /\ IF BatchRaises(batch)
       THEN /\ pc' = "raised"
            /\ error' = "RuntimeError"
            /\ UNCHANGED <<autoencoder, batch, cluster_labels_cpu>>
       ELSE /\ autoencoder' \in Autoencoders
            /\ batch' = batch + 1
            /\ cluster_labels_cpu' =
                    [x \in XRows |-> IF x \in BatchIds(batch) THEN current_labels(x)
                                     ELSE cluster_labels_cpu[x]]
            /\ UNCHANGED <<pc, error>>
    /\ UNCHANGED <<conf, embedded_data, n_clusters_current, centers_cpu,
                   embedded_centers_cpu, dip_matrix_cpu, dip_argmax, i>>

\* dipdeck.py:231-276: one batch, one optimizer step
TrainBatch ==
    /\ pc = "batch"
    /\ batch < NBatches
    /\ IF BatchRaises(batch)
       THEN /\ pc' = "raised"
            /\ error' = "RuntimeError"
            /\ UNCHANGED <<autoencoder, batch>>
       ELSE /\ autoencoder' \in Autoencoders
            /\ batch' = batch + 1
            /\ UNCHANGED <<pc, error>>
    /\ UNCHANGED <<conf, embedded_data, clustering, i>>

\* np.argmin(cdist(embedded_centers_cpu, embedded_data), axis=0): first nearest center
NearestCenter(embedded_centers, e) ==
    CHOOSE k \in DOMAIN embedded_centers :
        \A m \in DOMAIN embedded_centers :
            /\ Abs(embedded_centers[k] - e) <= Abs(embedded_centers[m] - e)
            /\ (Abs(embedded_centers[k] - e) = Abs(embedded_centers[m] - e) => k <= m)

\* dipdeck.py:278-283: labels and centers from the embedding of the trained network
UpdateCenters(ae, centers, n) ==
    LET emb == encode_batchwise(ae)
        encoded_centers == [k \in DOMAIN centers |-> ae[centers[k]]]
        labels == [x \in XRows |-> NearestCenter(encoded_centers, emb[x])]
        optimal_centers == [k \in 0..(n - 1) |-> ClusterMean(emb, labels, k)]
        near == get_nearest_points_to_optimal_centers(optimal_centers, emb)
    IN [embedded_data |-> emb, labels |-> labels,
        centers |-> near.centers, embedded |-> near.embedded]

NextEpochSame(k) == k

\* dipdeck.py:295
NextEpoch(k) == k + 1

\* dipdeck.py:278-297: after the last batch
Recompute ==
    /\ pc = "batch"
    /\ batch = NBatches
    /\ \E up \in {UpdateCenters(autoencoder, centers_cpu, n_clusters_current)} :
          /\ embedded_data' = up.embedded_data
          /\ cluster_labels_cpu' = up.labels
          /\ centers_cpu' = up.centers
          /\ embedded_centers_cpu' = up.embedded
          /\ \E dip \in DipMatrices(up.labels, n_clusters_current) :
                /\ dip_matrix_cpu' = dip
                /\ dip_argmax' = Argmax(dip, n_clusters_current)
    /\ i' = NextEpoch(i)
    /\ pc' = "merge_check"
    /\ UNCHANGED <<error, conf, autoencoder, n_clusters_current, batch>>

\* the merge loop guarded by "more than one cluster" instead of min_n_clusters
MergePossibleDownToOne ==
    /\ dip_matrix_cpu[dip_argmax[1]][dip_argmax[2]] >= dip_merge_threshold
    /\ n_clusters_current > 1

\* dipdeck.py:299: is merge possible?
MergePossible ==
    /\ dip_matrix_cpu[dip_argmax[1]][dip_argmax[2]] >= dip_merge_threshold
    /\ n_clusters_current > min_n_clusters

\* dipdeck.py:305-312: one pass of the merge loop
NaturalMerge ==
    /\ pc = "merge_check"
    /\ MergePossible
    /\ i' = 0
    /\ n_clusters_current' = n_clusters_current - 1
    /\ \E m \in MergeResults(embedded_data, cluster_labels_cpu, dip_argmax,
                              n_clusters_current - 1, centers_cpu, embedded_centers_cpu) :
            /\ cluster_labels_cpu' = m.labels
            /\ centers_cpu' = m.centers
            /\ embedded_centers_cpu' = m.embedded
            /\ dip_matrix_cpu' = m.dip
            /\ dip_argmax' = Argmax(m.dip, n_clusters_current - 1)
    /\ UNCHANGED <<pc, error, conf, autoencoder, embedded_data, batch>>

\* dipdeck.py:299: the merge loop ends
MergeCheckDone ==
    /\ pc = "merge_check"
    /\ ~MergePossible
    /\ pc' = "force_check"
    /\ UNCHANGED <<error, conf, autoencoder, embedded_data, clustering, i, batch>>

\* ---- forced merge / deletion (dipdeck.py:314-350) ----
\* np.unique(cluster_labels_cpu, return_counts=True): the labels in use, ascending,
\* as the array position -> label; the counts are the sizes of these labels
UniqueLabels(labels) ==
    LET used == {labels[x] : x \in XRows}
    IN [r \in 0..(Cardinality(used) - 1) |->
            CHOOSE l \in used : Cardinality({m \in used : m < l}) = r]

\* np.argmin(cluster_sizes): position of the first smallest count
SmallestPosition(labels) ==
    LET u == UniqueLabels(labels)
    IN CHOOSE r \in DOMAIN u :
        \A q \in DOMAIN u :
            /\ ClusterSize(labels, u[r]) <= ClusterSize(labels, u[q])
            /\ (ClusterSize(labels, u[r]) = ClusterSize(labels, u[q]) => r <= q)

\* dipdeck.py:317-318
smallest_cluster_id == SmallestPosition(cluster_labels_cpu)
smallest_cluster_size ==
    ClusterSize(cluster_labels_cpu, UniqueLabels(cluster_labels_cpu)[smallest_cluster_id])

\* dipdeck.py:322: smallest_cluster_size < 0.2 * np.mean(cluster_sizes)
SmallEnoughForDeletion ==
    DeleteDen * smallest_cluster_size * Rows(UniqueLabels(cluster_labels_cpu))
        < WeightedSum([x \in XRows |-> 1], XRows)

\* the forced step taken whenever the count is above the maximum
ForceNeededIgnoringEpochs == n_clusters_current > max_n_clusters

ForceNeededAboveNext == i = clustering_epochs /\ n_clusters_current > max_n_clusters + 1

\* dipdeck.py:314
ForceNeeded == i = clustering_epochs /\ n_clusters_current > max_n_clusters

\* dipdeck.py:326-330: nearest center other than the removed one (its row is inf)
NearestOtherCenter(embedded_centers, removed, e) ==
    IF DOMAIN embedded_centers \subseteq {removed} THEN 0
    ELSE CHOOSE k \in DOMAIN embedded_centers \ {removed} :
        \A m \in DOMAIN embedded_centers \ {removed} :
            /\ Abs(embedded_centers[k] - e) <= Abs(embedded_centers[m] - e)
            /\ (Abs(embedded_centers[k] - e) = Abs(embedded_centers[m] - e) => k <= m)

\* the removal without the renumbering of the ids above the removed one
RemoveClusterNoShift(labels, embedded_centers, emb, removed) ==
    [x \in XRows |->
        IF labels[x] = removed
        THEN NearestOtherCenter(embedded_centers, removed, emb[x])
        ELSE labels[x]]

\* dipdeck.py:330-331: labels after the removal of cluster id `removed`
RemoveCluster(labels, embedded_centers, emb, removed) ==
    LET moved == [x \in XRows |->
                    IF labels[x] = removed
                    THEN NearestOtherCenter(embedded_centers, removed, emb[x])
                    ELSE labels[x]]
    IN [x \in XRows |-> IF moved[x] >= removed THEN moved[x] - 1 ELSE moved[x]]

\* dipdeck.py:319-340
ForcedDeletion ==
    /\ pc = "force_check"
    /\ ForceNeeded
    /\ SmallEnoughForDeletion
    /\ i' = 0
    /\ n_clusters_current' = n_clusters_current - 1
    /\ \E labels \in {RemoveCluster(cluster_labels_cpu, embedded_centers_cpu, embedded_data,
                                    smallest_cluster_id)} :
       \E near \in {get_nearest_points_to_optimal_centers(
                        [k \in 0..(n_clusters_current - 2) |->
                            ClusterMean(embedded_data, labels, k)], embedded_data)} :
          /\ cluster_labels_cpu' = labels
          /\ centers_cpu' = near.centers
          /\ embedded_centers_cpu' = near.embedded
          /\ dip_matrix_cpu' \in DipMatrices(labels, n_clusters_current - 1)
    /\ pc' = "end_check"
    /\ UNCHANGED <<error, conf, autoencoder, embedded_data, dip_argmax, batch>>

\* dipdeck.py:319-320, 341-350: the embedded centers returned by the merge are dropped
ForcedMerge ==
    /\ pc = "force_check"
    /\ ForceNeeded
    /\ ~SmallEnoughForDeletion
    /\ i' = 0
    /\ n_clusters_current' = n_clusters_current - 1
    /\ \E m \in MergeResults(embedded_data, cluster_labels_cpu, dip_argmax,
                              n_clusters_current - 1, centers_cpu, embedded_centers_cpu) :
            /\ cluster_labels_cpu' = m.labels
            /\ centers_cpu' = m.centers
            /\ dip_matrix_cpu' = m.dip
    /\ pc' = "end_check"
    /\ UNCHANGED <<error, conf, autoencoder, embedded_data, embedded_centers_cpu,
                   dip_argmax, batch>>

\* dipdeck.py:314: no merge is forced
NoForce ==
    /\ pc = "force_check"
    /\ ~ForceNeeded
    /\ pc' = "end_check"
    /\ UNCHANGED <<error, conf, autoencoder, embedded_data, clustering, i, batch>>

\* dipdeck.py:351-354: only one cluster left
EndCheck ==
    /\ pc = "end_check"
    /\ pc' = IF n_clusters_current = 1 THEN "done" ELSE "loop"
    /\ UNCHANGED <<error, conf, autoencoder, embedded_data, clustering, i, batch>>

Next ==
    \/ Validate
    \/ Pretrain
    \/ InitialClustering
    \/ LoopTest
    \/ TrainBatch
    \/ Recompute
    \/ NaturalMerge
    \/ MergeCheckDone
    \/ ForcedDeletion
    \/ ForcedMerge
    \/ NoForce
    \/ EndCheck

Spec == Init /\ [][Next]_vars

\* ---- properties ----
\* the positions of _dip_deck_training
TrainingPcs == {"loop", "batch", "merge_check", "force_check", "end_check", "done"}

\* the labels in use
UsedLabels(labels) == {labels[x] : x \in XRows}

\* A variant of the run: the number of steps still possible is bounded by it.  It
\* orders the states by cluster count, then by the epochs left (clustering_epochs - i),
\* then by the position within the pass.
PassSteps == NBatches + 6
StepRank ==
    CASE pc = "merge_check" -> NBatches + 5
      [] pc = "force_check" -> NBatches + 4
      [] pc = "end_check" -> NBatches + 3
      [] pc = "loop" -> NBatches + 2
      [] pc = "batch" -> NBatches + 1 - batch
      [] OTHER -> 0
Variant ==
    CASE pc = "start" -> (NRows + 2) * (MaxEpochs + 2) * PassSteps + 3
      [] pc = "pretrain" -> (NRows + 2) * (MaxEpochs + 2) * PassSteps + 2
      [] pc = "initial_clustering" -> (NRows + 2) * (MaxEpochs + 2) * PassSteps + 1
      [] pc \in {"done", "raised"} -> 0
      [] OTHER -> n_clusters_current * (MaxEpochs + 2) * PassSteps
                    + (clustering_epochs - i) * PassSteps + StepRank

\* C1: the training loop terminates after finitely many epochs, whatever the
\* configuration and whatever dip matrices the dip engine returns: every step of a
\* run decreases a non-negative integer variant, so no run has infinitely many steps.
C1_Terminates == [](Variant >= 0) /\ [][Variant' < Variant]_vars

C1_Witness ==
    /\ pc = "done"
    /\ clustering_epochs = MaxEpochs
    /\ i = clustering_epochs
    /\ n_clusters_current > 1
    /\ n_clusters_current < n_clusters_init

\* C2: if the training loop starts with at least min_n_clusters clusters, the
\* cluster count never falls below min_n_clusters, in every state of the loop and
\* in the returned result.
C2_CountAtLeastMin ==
    (pc \in TrainingPcs /\ n_clusters_init >= min_n_clusters)
        => n_clusters_current >= min_n_clusters

\* a merge the threshold asks for is hindered because the minimum is reached
C2_Witness ==
    /\ pc = "force_check"
    /\ min_n_clusters = 2
    /\ n_clusters_init = 3
    /\ n_clusters_current = min_n_clusters
    /\ dip_matrix_cpu[dip_argmax[1]][dip_argmax[2]] >= dip_merge_threshold

LabelsContiguous(labels, n) == UsedLabels(labels) = 0..(n - 1)

\* C4: from the state handed over by the initial clustering until the result is
\* returned, every label lies in [0, n_clusters_current) and every id in that range
\* is used by some sample: no step of the training loop (recompute, natural merge,
\* forced merge, forced deletion) takes a state with this property to one without it.
C4_LabelsStayContiguous ==
    [][(pc \in TrainingPcs /\ LabelsContiguous(cluster_labels_cpu, n_clusters_current))
        => LabelsContiguous(cluster_labels_cpu', n_clusters_current')]_vars

\* the merge loop is about to call _merge_by_dip_value
NaturalMergeCall == pc = "merge_check" /\ MergePossible
\* the forced branch is about to call _merge_by_dip_value
ForcedMergeCall == pc = "force_check" /\ ForceNeeded /\ ~SmallEnoughForDeletion

\* C5: a cluster is never merged with itself: the pair handed to _merge_by_dip_value,
\* by the threshold-driven merge check and by the forced merge, consists of two
\* distinct cluster ids.
C5_NeverMergedWithItself ==
    (NaturalMergeCall \/ ForcedMergeCall) => dip_argmax[1] # dip_argmax[2]

\* C6: one merge call reduces the cluster count by exactly one and, when all clusters
\* are non-empty before the call, leaves exactly the labels 0..n-2 in use.
C6_MergeKeepsLabelsContiguous ==
    [][((NaturalMergeCall \/ ForcedMergeCall)
            /\ LabelsContiguous(cluster_labels_cpu, n_clusters_current))
        => (/\ n_clusters_current' = n_clusters_current - 1
            /\ UsedLabels(cluster_labels_cpu') = 0..(n_clusters_current - 2))]_vars

\* C7: the returned result has every label in [0, n_clusters_final) and a center
\* array of exactly n_clusters_final rows.
C7_OutputContract ==
    pc = "done" =>
        /\ \A x \in XRows : cluster_labels_cpu[x] \in 0..(n_clusters_current - 1)
        /\ DOMAIN centers_cpu = 0..(n_clusters_current - 1)

\* the positions at which a step of the loop has just completed
SettledPcs == {"loop", "merge_check", "force_check", "end_check", "done"}

CentersAreSamples == \A k \in DOMAIN centers_cpu : centers_cpu[k] \in XRows

\* row k of the embedded centers is the embedding of the sample in row k of the centers
EmbeddedCentersMatch ==
    /\ DOMAIN embedded_centers_cpu = DOMAIN centers_cpu
    /\ \A k \in DOMAIN centers_cpu : embedded_centers_cpu[k] = embedded_data[centers_cpu[k]]

ForcedDeletionCall == pc = "force_check" /\ ForceNeeded /\ SmallEnoughForDeletion

C9_DipMatrixSymmetric ==
    pc \in SettledPcs =>
        /\ DOMAIN dip_matrix_cpu = 0..(n_clusters_current - 1)
        /\ \A a \in DOMAIN dip_matrix_cpu :
            /\ DOMAIN dip_matrix_cpu[a] = 0..(n_clusters_current - 1)
            /\ dip_matrix_cpu[a][a] = 0
            /\ \A b \in DOMAIN dip_matrix_cpu : dip_matrix_cpu[a][b] = dip_matrix_cpu[b][a]

C9_Witness ==
    /\ pc = "merge_check"
    /\ n_clusters_current = 3
    /\ dip_matrix_cpu[0][1] = PScale
    /\ dip_matrix_cpu[1][0] = PScale
    /\ dip_matrix_cpu[0][2] = 0
    /\ dip_matrix_cpu[1][2] = 0

\* one of the four invalid configurations
InvalidConfiguration ==
    \/ max_n_clusters < min_n_clusters
    \/ min_n_clusters <= 0
    \/ (n_clusters_init # None /\ n_clusters_init < min_n_clusters)
    \/ dip_merge_threshold < 0
    \/ dip_merge_threshold > PScale

\* C10: each of the four invalid configurations is rejected with an error before any
\* computation: the first step raises, leaves the network and the clustering state
\* untouched, and no step follows it.
C10_InvalidRejectedFirst ==
    [][/\ (pc = "start" /\ InvalidConfiguration) =>
            /\ pc' = "raised"
            /\ error' # ""
            /\ UNCHANGED <<autoencoder, embedded_data, clustering, i, batch>>
       /\ pc # "raised"]_vars

C10_Witness ==
    /\ pc = "raised"
    /\ error = "dip_merge_threshold must be between 0 and 1"
    /\ n_clusters_current = 0

\* ---- construction and validation ----
\* a configuration error: threshold outside [0, 1], min_n_clusters > max_n_clusters,
\* non-positive min_n_clusters
ConfigurationError ==
    \/ dip_merge_threshold < 0
    \/ dip_merge_threshold > PScale
    \/ min_n_clusters > max_n_clusters
    \/ min_n_clusters <= 0

\* C11 as stated: constructing an estimator with a configuration error raises, so no
\* constructed estimator (one on which fit has not run yet) holds such a configuration.
C11_NoInvalidEstimator == pc = "start" => ~ConfigurationError

\* C11 amended: the constructor stores the configuration unchecked; a configuration
\* error is fatal at the start of fit: the first step of fit raises and leaves the
\* configuration, the network and the clustering state untouched.
C11_RejectedAtFit ==
    [][(pc = "start" /\ ConfigurationError) =>
            /\ pc' = "raised"
            /\ error' # ""
            /\ UNCHANGED <<conf, autoencoder, embedded_data, clustering>>]_vars

C11_Witness ==
    /\ pc = "raised"
    /\ min_n_clusters <= 0
    /\ n_clusters_init # None
    /\ error = "min_n_clusters must be greater than zero"

\* the number of clusters reported by the initial clustering: the distinct labels >= 0
ReportedCount(labels) == Cardinality({l \in UsedLabels(labels) : l >= 0})

\* C12: with n_clusters_init = None and an otherwise valid configuration the validation
\* raises no error, and the initial cluster count is the one reported by the initial
\* clustering.
C12_NoneAccepted ==
    [][/\ (/\ pc = "start"
           /\ n_clusters_init = None
           /\ initial_clustering_class = "bare"
           /\ ~ConfigurationError) =>
            (pc' = "pretrain" /\ error' = "")
       /\ (pc = "initial_clustering" /\ pc' = "loop") =>
            n_clusters_current' = ReportedCount(cluster_labels_cpu')]_vars

\* C13: a run whose initial clustering produces fewer than min_n_clusters clusters
\* (distinct non-negative labels) is rejected: it raises and the training loop is not
\* entered with n_clusters_current < min_n_clusters.
C13_InitialCountBelowMinRejected ==
    [][(pc = "initial_clustering" /\ ReportedCount(cluster_labels_cpu') < min_n_clusters) =>
            (pc' = "raised" /\ error' # "")]_vars

\* C14: a second full-pass recompute right after the first, with the same network,
\* yields the labels and centers of the first.
C14_RecomputeIdempotent ==
    [][(pc = "batch" /\ batch = NBatches) =>
            LET again == UpdateCenters(autoencoder', centers_cpu', n_clusters_current')
            IN /\ again.labels = cluster_labels_cpu'
               /\ again.centers = centers_cpu']_vars

\* C15: once a run that started with more than one cluster is down to one cluster, it
\* only finishes the current pass and returns (no further training epoch, no error),
\* and every label is 0.
C15_OneClusterTerminal ==
    (n_clusters_init > 1 /\ n_clusters_current = 1) =>
        /\ pc \in {"merge_check", "force_check", "end_check", "done"}
        /\ \A x \in XRows : cluster_labels_cpu[x] = 0

\* ---- the batch loop ----
RECURSIVE RowSum(_, _)
RowSum(row, k) == IF k < 0 THEN 0 ELSE row[k] + RowSum(row, k - 1)

\* dipdeck.py:228-229: (dip_matrix + eye) / row sums, as fractions num/den of p-levels
dip_matrix_final ==
    [a \in DOMAIN dip_matrix_cpu |-> [b \in DOMAIN dip_matrix_cpu |->
        [num |-> dip_matrix_cpu[a][b] + (IF a = b THEN PScale ELSE 0),
         den |-> RowSum(dip_matrix_cpu[a], Rows(dip_matrix_cpu) - 1) + PScale]]]

\* C17: while the batches of an epoch are iterated the stored labels, centers, dip
\* matrix, normalized dip-cost matrix and cluster count do not change (live labels
\* are not written back); they change only once the last batch is done.
C17_BatchesLeaveStateAlone ==
    [][(pc = "loop" \/ (pc = "batch" /\ batch < NBatches)) =>
            /\ UNCHANGED <<cluster_labels_cpu, centers_cpu, dip_matrix_cpu, n_clusters_current>>
            /\ dip_matrix_final' = dip_matrix_final]_vars

\* all batches of an epoch with live labels are done, a live label differs from the
\* stored one
C17_Witness ==
    /\ pc = "batch"
    /\ batch = NBatches
    /\ i > 0
    /\ n_clusters_current = 2
    /\ \E s \in XRows : LiveLabel(autoencoder, centers_cpu, s) # cluster_labels_cpu[s]

AttainsMaximum(p) ==
    /\ p[1] \in DOMAIN dip_matrix_cpu
    /\ p[2] \in DOMAIN dip_matrix_cpu
    /\ \A a, b \in DOMAIN dip_matrix_cpu :
            dip_matrix_cpu[p[1]][p[2]] >= dip_matrix_cpu[a][b]

\* C19: the pair examined by the merge check attains the maximum of the current dip
\* matrix; a merge of the check is followed by the check on the recomputed matrix with
\* no training step in between; and when the check has finished, either the count is
\* at most min_n_clusters or every entry of the matrix is below dip_merge_threshold.
C19_MergeCheckPostcondition ==
    /\ [](pc = "merge_check" => AttainsMaximum(dip_argmax))
    /\ [](pc = "force_check" =>
            \/ n_clusters_current <= min_n_clusters
            \/ \A a, b \in DOMAIN dip_matrix_cpu : dip_matrix_cpu[a][b] < dip_merge_threshold)
    /\ [][NaturalMergeCall =>
            (pc' = "merge_check" /\ UNCHANGED <<autoencoder, embedded_data, batch>>)]_vars

\* a merge happened in this pass and the check ended on the threshold, not on the count
C19_Witness ==
    /\ pc = "force_check"
    /\ i = 0
    /\ n_clusters_init = 3
    /\ n_clusters_current = 2
    /\ min_n_clusters = 1
    /\ dip_matrix_cpu[0][1] < dip_merge_threshold

\* ---- stabilization delay ----
\* a step that reduces the cluster count
CountReducingCall == NaturalMergeCall \/ ForcedMergeCall \/ ForcedDeletionCall

\* C20: the epoch counter i is 0 when the run enters its first epoch and after every
\* count-reducing step (natural merge, forced merge, forced deletion), it keeps its
\* value up to the end of the next epoch's batches, and a completed epoch without such
\* a step leaves i > 0; every batch of an epoch with i = 0 is trained with the stored
\* labels, every batch of an epoch with i > 0 with the live nearest-center labels.
C20_StabilizationDelay ==
    /\ [](pc \in {"start", "pretrain", "initial_clustering"} => i = 0)
    /\ [][/\ CountReducingCall => i' = 0
          /\ (pc = "batch" /\ batch = NBatches) => i' > 0
          /\ (~CountReducingCall /\ ~(pc = "batch" /\ batch = NBatches)) => i' = i]_vars
    /\ [](pc = "batch" /\ batch < NBatches =>
            \A s \in BatchIds(batch) :
                current_labels(s) = IF i = 0 THEN cluster_labels_cpu[s]
                                    ELSE LiveLabel(autoencoder, centers_cpu, s))

\* a batch of the first epoch after a merge was trained with the stored labels although
\* the live ones differ
C20_Witness ==
    /\ pc = "batch"
    /\ batch = 1
    /\ i = 0
    /\ n_clusters_init = 3
    /\ n_clusters_current = 2
    /\ \E s \in BatchIds(0) : LiveLabel(autoencoder, centers_cpu, s) # cluster_labels_cpu[s]

\* ---- epoch budget ----
\* i counts the training epochs completed since the last count-reducing step (or since
\* the start of the run): an epoch adds one, a count-reducing step resets it, nothing
\* else changes it
CountsEpochsSinceLastEvent ==
    [][IF CountReducingCall THEN i' = 0
       ELSE IF pc = "batch" /\ batch = NBatches THEN i' = i + 1
       ELSE i' = i]_vars

\* C21 as stated: a run returns after exactly clustering_epochs epochs since its last
\* count-reducing step, unless such a step brought the count to 1; a run without any
\* count-reducing step returns after exactly clustering_epochs epochs.
C21_EpochsAfterLastEvent ==
    pc = "done" =>
        \/ i = clustering_epochs
        \/ (n_clusters_current = 1 /\ n_clusters_init > 1)

\* C21 amended: a run returns after exactly clustering_epochs epochs since its last
\* count-reducing step (or since its start), unless it has a single cluster, be it by
\* a count-reducing step or from the initial clustering on; with a single cluster it
\* returns at the end of the pass.
C21_EpochsAfterLastEventOrOneCluster ==
    /\ CountsEpochsSinceLastEvent
    /\ [](pc = "done" => (i = clustering_epochs \/ n_clusters_current = 1))
    /\ [](pc = "end_check" /\ n_clusters_current = 1 => ENABLED EndCheck)

C21_Witness ==
    /\ pc = "done"
    /\ clustering_epochs = MaxEpochs
    /\ i = MaxEpochs
    /\ n_clusters_init = 3
    /\ n_clusters_current = 2

\* ---- forced step ----
\* C22: after the merge check of a pass a forced action is taken exactly when i equals
\* clustering_epochs (then no merge has reset i in this pass) and the count is above
\* max_n_clusters; it lowers the count by exactly one and resets i to 0, otherwise
\* count, labels, centers and i stay as they are; either way the pass goes on to its
\* end, so there is at most one forced action per pass.
C22_ForcedActionIff ==
    /\ [](pc = "force_check" /\ i = clustering_epochs => i >= 1)
    /\ [][pc = "force_check" =>
            /\ pc' = "end_check"
            /\ IF i = clustering_epochs /\ n_clusters_current > max_n_clusters
               THEN n_clusters_current' = n_clusters_current - 1 /\ i' = 0
               ELSE UNCHANGED <<n_clusters_current, cluster_labels_cpu, centers_cpu,
                                dip_matrix_cpu, i>>]_vars

\* a forced merge has just brought the count down to max_n_clusters
C22_Witness ==
    /\ pc = "end_check"
    /\ i = 0
    /\ n_clusters_current = max_n_clusters
    /\ Rows(embedded_centers_cpu) = Rows(centers_cpu) + 1

\* C23: in a forced pass the cluster examined for deletion has the fewest members
\* among all ids 0..n_clusters_current-1: smallest_cluster_id is the id of such a
\* cluster and smallest_cluster_size is its size, also when some id has no member.
C23_SmallestClusterExamined ==
    pc = "force_check" /\ ForceNeeded =>
        /\ smallest_cluster_id \in 0..(n_clusters_current - 1)
        /\ smallest_cluster_size = ClusterSize(cluster_labels_cpu, smallest_cluster_id)
        /\ \A k \in 0..(n_clusters_current - 1) :
                ClusterSize(cluster_labels_cpu, smallest_cluster_id)
                    <= ClusterSize(cluster_labels_cpu, k)

\* the fewest members of a cluster id in 0..n_clusters_current-1
FewestMembers ==
    CHOOSE c \in {ClusterSize(cluster_labels_cpu, k) : k \in 0..(n_clusters_current - 1)} :
        \A k \in 0..(n_clusters_current - 1) : c <= ClusterSize(cluster_labels_cpu, k)

\* the smallest cluster has fewer than 20% of the mean cluster size (samples / clusters)
BelowFifthOfMean ==
    DeleteDen * FewestMembers * n_clusters_current < WeightedSum([x \in XRows |-> 1], XRows)

\* C24: in a forced pass the smallest cluster is deleted when its size is strictly
\* below 20% of the mean cluster size, and otherwise the pair with the highest dip
\* value is merged whatever dip_merge_threshold is; never both, never neither.
C24_DeletedIffSmall ==
    [][pc = "force_check" /\ ForceNeeded =>
            IF BelowFifthOfMean
            THEN ForcedDeletion /\ ~ForcedMerge
            ELSE ForcedMerge /\ ~ForcedDeletion /\ AttainsMaximum(dip_argmax)]_vars

\* cluster id l after the removal of cluster id removed
ShiftedDown(l, removed) == IF l > removed THEN l - 1 ELSE l

\* k is a cluster other than removed whose embedded center is nearest to embedding e
NearestOtherThan(k, removed, e) ==
    /\ k \in DOMAIN embedded_centers_cpu \ {removed}
    /\ \A m \in DOMAIN embedded_centers_cpu \ {removed} :
            Abs(embedded_centers_cpu[k] - e) <= Abs(embedded_centers_cpu[m] - e)

\* C25: a forced deletion of cluster s moves every member of s to a cluster other than
\* s whose embedded center is nearest to it and leaves every other sample in its
\* cluster, where ids above s are lowered by one and ids below s are kept; when every
\* cluster other than s has a member, the labels in use afterwards are exactly
\* 0..n_clusters_current-1.
C25_ForcedDeletionFrame ==
    [][ForcedDeletionCall =>
        /\ \A x \in XRows :
            IF cluster_labels_cpu[x] = smallest_cluster_id
            THEN \E k \in DOMAIN embedded_centers_cpu :
                    /\ NearestOtherThan(k, smallest_cluster_id, embedded_data[x])
                    /\ cluster_labels_cpu'[x] = ShiftedDown(k, smallest_cluster_id)
            ELSE cluster_labels_cpu'[x] = ShiftedDown(cluster_labels_cpu[x], smallest_cluster_id)
        /\ (\A k \in 0..(n_clusters_current - 1) \ {smallest_cluster_id} :
                ClusterSize(cluster_labels_cpu, k) > 0)
            => UsedLabels(cluster_labels_cpu') = 0..(n_clusters_current' - 1)]_vars

\* a forced deletion has taken the count from three to two: the pair found by the last
\* merge check still names the third cluster, so no merge has run since, and a forced
\* merge would have left three embedded centers
C25_Witness ==
    /\ pc = "end_check"
    /\ i = 0
    /\ n_clusters_init = 3
    /\ n_clusters_current = 2
    /\ Rows(embedded_centers_cpu) = 2
    /\ dip_argmax[2] = 2
    /\ UsedLabels(cluster_labels_cpu) = {0, 1}

\* ---- merge relabeling ----
\* the label claimed for a sample labelled l when the pair a < b is merged into n1 clusters
ClaimedLabel(l, a, b, n1) ==
    IF l = a \/ l = b THEN n1 - 1
    ELSE IF l < a THEN l
    ELSE IF l < b THEN l - 1
    ELSE l - 2

\* the cluster counts before a merge for which the relabeling is evaluated
MergeSizes == 2..(NRows + 1)

\* a merge of two different clusters is about to be called
DistinctMergeCall ==
    (NaturalMergeCall \/ ForcedMergeCall) /\ dip_argmax[1] # dip_argmax[2]

\* C26: the relabeling of a merge of the pair a < b of n clusters into n - 1 sends a and
\* b to n - 2, keeps the labels below a, lowers the labels between a and b by one and
\* the labels above b by two; it is the same for the pair given as (b, a); it keeps
\* the order of the surviving clusters; and every merge of two different clusters
\* relabels the stored labels by it.
C26_MergeRelabeling ==
    /\ [](pc = "merge_check" =>
            \A n \in MergeSizes : \A a, b \in 0..(n - 1) :
                a < b =>
                    /\ \A l \in 0..(n - 1) :
                        /\ Relabel(l, a, b, n - 1) = ClaimedLabel(l, a, b, n - 1)
                        /\ Relabel(l, b, a, n - 1) = Relabel(l, a, b, n - 1)
                    /\ \A l, m \in (0..(n - 1)) \ {a, b} :
                        l < m => Relabel(l, a, b, n - 1) < Relabel(m, a, b, n - 1))
    /\ [][DistinctMergeCall =>
            \A x \in XRows :
                cluster_labels_cpu'[x] =
                    ClaimedLabel(cluster_labels_cpu[x],
                                 Min2(dip_argmax[1], dip_argmax[2]),
                                 IF dip_argmax[1] < dip_argmax[2]
                                    THEN dip_argmax[2] ELSE dip_argmax[1],
                                 n_clusters_current')]_vars

\* the merge check has just merged two of three clusters: i is 0 only after a merge,
\* and a merge of a cluster with itself would have left three centers
C26_Witness ==
    /\ pc = "merge_check"
    /\ i = 0
    /\ n_clusters_init = 3
    /\ n_clusters_current = 2
    /\ Rows(centers_cpu) = 2
    /\ UsedLabels(cluster_labels_cpu) = {0, 1}

\* ---- merge alignment ----
\* sample x is nearest, in the embedding, to the average of the embedded centers of a
\* and b weighted by the member counts of a and b in labels
NearestToWeightedAverage(x, labels, a, b) ==
    LET num == embedded_centers_cpu[a] * ClusterSize(labels, a)
                + embedded_centers_cpu[b] * ClusterSize(labels, b)
        den == ClusterSize(labels, a) + ClusterSize(labels, b)
    IN \A t \in XRows :
            Abs(num - den * embedded_data[x]) <= Abs(num - den * embedded_data[t])

\* the result m of merging the pair a < b of the current state is aligned
MergeAligned(m, a, b) ==
    /\ Rows(m.centers) = n_clusters_current - 1
    /\ Rows(m.embedded) = n_clusters_current - 1
    /\ \A k \in (0..(n_clusters_current - 1)) \ {a, b} :
        /\ m.centers[ClaimedLabel(k, a, b, n_clusters_current - 1)] = centers_cpu[k]
        /\ m.embedded[ClaimedLabel(k, a, b, n_clusters_current - 1)] = embedded_centers_cpu[k]
    /\ m.centers[n_clusters_current - 2] \in XRows
    /\ NearestToWeightedAverage(m.centers[n_clusters_current - 2], cluster_labels_cpu, a, b)
    /\ m.embedded[n_clusters_current - 2] = embedded_data[m.centers[n_clusters_current - 2]]

\* C27: every result of a merge of two different clusters has one center and one embedded
\* center per remaining cluster; a surviving cluster finds its previous center and
\* embedded center at the row of its new label; the last row is the new representative,
\* a sample nearest to the average of the two old embedded centers weighted by the
\* member counts from before the relabeling, with that sample's embedding.
C27_MergeKeepsCentersAligned ==
    DistinctMergeCall =>
        \A m \in MergeResults(embedded_data, cluster_labels_cpu, dip_argmax,
                              n_clusters_current - 1, centers_cpu, embedded_centers_cpu) :
            MergeAligned(m, Min2(dip_argmax[1], dip_argmax[2]),
                         IF dip_argmax[1] < dip_argmax[2] THEN dip_argmax[2] ELSE dip_argmax[1])

\* ---- state consistency ----
\* a step that changes the clustering is about to run: the per-epoch recompute, a merge
\* of the merge check, a forced merge or a forced deletion
StateChangingCall ==
    \/ (pc = "batch" /\ batch = NBatches)
    \/ NaturalMergeCall
    \/ ForcedMergeCall
    \/ ForcedDeletionCall

\* C28: after the per-epoch recompute, a natural merge, a forced merge and a forced
\* deletion the centers and the embedded centers have n_clusters_current rows each, the
\* dip matrix is n_clusters_current x n_clusters_current, and it is a matrix that
\* _get_dip_matrix returns for the clusters of the new state (symmetric, zero diagonal,
\* a dip p-value for every pair).
C28_StateDescribesOneCount ==
    [][StateChangingCall =>
        /\ Rows(centers_cpu') = n_clusters_current'
        /\ Rows(embedded_centers_cpu') = n_clusters_current'
        /\ DOMAIN dip_matrix_cpu' = 0..(n_clusters_current' - 1)
        /\ \A a \in DOMAIN dip_matrix_cpu' :
                DOMAIN dip_matrix_cpu'[a] = 0..(n_clusters_current' - 1)
        /\ \A a, b \in DOMAIN dip_matrix_cpu' :
                /\ dip_matrix_cpu'[a][b] \in PVals
                /\ dip_matrix_cpu'[a][b] = dip_matrix_cpu'[b][a]
                /\ (a = b => dip_matrix_cpu'[a][b] = 0)]_vars

\* ---- representatives ----
\* C29: after the initial snap, every recompute, every merge and every forced deletion
\* no two rows of the centers are the same sample, and the nearest-center reassignment
\* of a recompute leaves no cluster without a member.
C29_DistinctRepresentatives ==
    /\ [](pc \in SettledPcs =>
            \A j, k \in DOMAIN centers_cpu : j # k => centers_cpu[j] # centers_cpu[k])
    /\ [][pc = "batch" /\ batch = NBatches =>
            \A k \in 0..(n_clusters_current' - 1) :
                ClusterSize(cluster_labels_cpu', k) > 0]_vars

\* ---- initial clustering adapter ----
\* cluster_centers_ of an algorithm fitted with the labelling g for k clusters: the mean
\* of its samples for a cluster in use, some sample for a cluster without a sample
ExposedCenters(emb, g, k) ==
    {c \in [0..(k - 1) -> {ClusterMean(emb, g, j) : j \in 0..(k - 1)}
                            \cup {[num |-> emb[x], den |-> 1] : x \in XRows}] :
        \A j \in 0..(k - 1) : Members(g, j) # {} => c[j] = ClusterMean(emb, g, j)}

\* what a supported algorithm may hand to the adapter after fit(X): one that takes
\* n_clusters = k labels the samples with ids below k, not necessarily with all of
\* them, and exposes k centers; one that determines the count itself may label
\* samples as noise and exposes no centers
SupportedAlgorithms(class, emb, k) ==
    IF class = "n_clusters"
    THEN UNION {{[attr |-> "cluster_centers_", labels_ |-> g, centers |-> c] :
                    c \in ExposedCenters(emb, g, k)} : g \in [XRows -> 0..(k - 1)]}
    ELSE {FittedAlgorithm(class, emb, g, k) :
            g \in {h \in [XRows -> (-1)..(NRows - 1)] : FirstMetOrder(h)}}

\* the seed state returned for the fitted algorithm is consistent
SeedStateConsistent(emb, clustering_algo) ==
    LET init == run_initial_clustering(emb, clustering_algo)
        used == {l \in {clustering_algo.labels_[x] : x \in XRows} : l >= 0}
    IN /\ init.n_clusters = Cardinality(used)
       /\ Rows(init.centers) = init.n_clusters
       /\ \A k \in DOMAIN init.centers :
            /\ k \in used
            /\ clustering_algo.attr = "none" =>
                    init.centers[k] = ClusterMean(emb, clustering_algo.labels_, k)

\* C30: for every algorithm the adapter supports the returned n_clusters is the number
\* of distinct non-negative labels, the returned centers have n_clusters rows, row k
\* is the center of label k, and for an algorithm that exposes no centers row k is the
\* mean of the samples labelled k, the samples with negative labels left out.
C30_SeedStateConsistent ==
    pc = "initial_clustering" =>
        \A clustering_algo \in SupportedAlgorithms(initial_clustering_class,
                                    encode_batchwise(autoencoder), n_clusters_init) :
            SeedStateConsistent(encode_batchwise(autoencoder), clustering_algo)

====
